---- MODULE Spec2Model ----
(***************************************************************************)
(* Model of ros1_ign_point_cloud/src/point_cloud.cc: the PointCloud system *)
(* plugin.  The update thread runs Configure once and then PostUpdate on   *)
(* every simulator tick; the rendering thread fires the depth camera's     *)
(* NewDepthFrame event, which runs PointCloudPrivate::OnNewDepthFrame once *)
(* the callback is connected.  The plugin is destroyed between two ticks:  *)
(* the members of PointCloudPrivate go in the reverse order of their       *)
(* declaration.                                                            *)
(*                                                                         *)
(* Floating point depths are integers; +infinity is the sentinel INF_D and *)
(* -infinity is -INF_D, so the comparisons of the source keep their        *)
(* meaning.  The x and y coordinates of a point (lines 286-315) need tan   *)
(* and atan2 and are left out of a point; z, r, g and b are kept.          *)
(***************************************************************************)
EXTENDS Integers, Sequences, FiniteSets, TLC

\* ------------------------------------------------------------------ bounds
MaxWidth == 2
MaxHeight == 2
MaxLog == 2

\* --------------------------------------------------------------- constants
INF_D == 1000
NsPerSec == 1000000000
PointStepXyzRgb == 32

Min(a, b) == IF a < b THEN a ELSE b

\* A null shared_ptr / "no sensor of that name".
Null == [kind |-> "null", w |-> 0, h |-> 0, near |-> 0, far |-> 0]

\* Rendering sensors the scene can hold: kind, native image size, clip planes.
DepthCam == [kind |-> "DepthCamera", w |-> 2, h |-> 2, near |-> 1, far |-> 3]
RgbCam == [kind |-> "Camera", w |-> 2, h |-> 2, near |-> 1, far |-> 3]
RgbCamSmall == [kind |-> "Camera", w |-> 2, h |-> 1, near |-> 1, far |-> 3]
OtherSensor == [kind |-> "Other", w |-> 0, h |-> 0, near |-> 0, far |-> 0]
DepthNameSensors == {DepthCam, RgbCam, OtherSensor}
RgbNameSensors == {RgbCam, RgbCamSmall, OtherSensor}

\* std::dynamic_pointer_cast<T>(sensor): DepthCamera derives from Camera.
DynamicCast(target, sensor) ==
  IF sensor = Null THEN Null
  ELSE IF target = "DepthCamera"
       THEN (IF sensor.kind = "DepthCamera" THEN sensor ELSE Null)
       ELSE (IF sensor.kind \in {"Camera", "DepthCamera"} THEN sensor ELSE Null)

\* Inputs of the model.
FrameIds == {"model/link/camera", "camera_optical_frame"}
SimTimes == {999999999, 1500000001}
DepthVals == {0, 1, 2, 4, INF_D}
InRangeVals == {3}
ChannelFormats == {<<1, "FLOAT32">>, <<3, "R_FLOAT16">>}
Seeds == {0, 5}
GarbageBytes == {255}
Uninit == -1

\* Depth frames of n pixels: in range everywhere but for the first or the
\* last pixel, which takes every value.
Scans(n) ==
  IF n = 0 THEN {<< >>}
  ELSE { [k \in 1..n |-> IF k = p THEN d1 ELSE d0] :
           d0 \in InRangeVals, d1 \in DepthVals, p \in {1, n} }

\* The n bytes the RGB camera renders into an image: all different.
Frame(seed, n) == [k \in 1..n |-> (seed + 10 * k) % 256]

\* ------------------------------------------------------------ sensor names
\* A string is a sequence of characters.  An entity is the sequence of the
\* names of its ancestors in the entity component manager, the world first:
\* a sensor entity has at least one ancestor.
DelimColons == <<":", ":">>
DepthSuffix == <<"_", "d", "e", "p", "t", "h">>
Entities == { << <<"w">>, <<"c", "a">> >>,
              << <<"w">>, <<"m">>, <<"l">>, <<"c", "a">> >> }

\* What Configure is given: the entity the plugin is attached to and the
\* frame id of its SDF element.
Configurations ==
  { [entity |-> << <<"w">>, <<"c", "a">> >>,
     frame_id |-> "camera_optical_frame"],
    [entity |-> << <<"w">>, <<"m">>, <<"l">>, <<"c", "a">> >>,
     frame_id |-> "model/link/camera"] }

\* ignition::gazebo::scopedName(entity, ecm, delim, false).
RECURSIVE ScopedName(_, _)
ScopedName(entity, delim) ==
  IF Len(entity) = 0 THEN << >>
  ELSE IF Len(entity) = 1 THEN entity[1]
       ELSE entity[1] \o delim \o ScopedName(Tail(entity), delim)

\* std::string::npos as a size_t is all ones: npos + 2 is 1.
Npos == -1

\* std::string::rfind in the place of find.
Find_Last(str, sub) ==
  LET hits == { i \in 0..(Len(str) - Len(sub)) :
                  SubSeq(str, i + 1, i + Len(sub)) = sub }
  IN IF hits = {} THEN Npos
     ELSE CHOOSE i \in hits : \A k \in hits : k <= i

\* std::string::find: the position, from 0, of the first occurrence.
Find(str, sub) ==
  LET hits == { i \in 0..(Len(str) - Len(sub)) :
                  SubSeq(str, i + 1, i + Len(sub)) = sub }
  IN IF hits = {} THEN Npos
     ELSE CHOOSE i \in hits : \A k \in hits : i <= k

\* std::string::substr(pos), for pos <= size().
Substr(str, pos) == SubSeq(str, pos + 1, Len(str))

\* Lines 180-182 and 211-213: the names the cameras are looked up under.
RgbSensorName(sensor_name) ==
  Substr(sensor_name, Find(sensor_name, DelimColons) + 2)

DepthSensorName(sensor_name) ==
  Substr(sensor_name, Find(sensor_name, DelimColons) + 2) \o DepthSuffix

VARIABLES
  pc,               \* position of the update thread
  crashed,          \* the process died on undefined behaviour
  engineLoaded,     \* ignition::rendering::engine(engine_name_) is non-null
  sceneCreated,     \* engine->SceneByName(scene_name_) is non-null
  depthSensor,      \* scene sensor named <tail>_depth, or Null
  rgbSensor,        \* scene sensor named <tail>, or Null
  scene_,           \* PointCloudPrivate::scene_ is non-null
  depth_camera_,    \* PointCloudPrivate::depth_camera_
  rgb_camera_,      \* PointCloudPrivate::rgb_camera_
  rgb_image_,       \* PointCloudPrivate::rgb_image_
  rgb_image_msg_,   \* PointCloudPrivate::rgb_image_msg_
  depth_connection_,\* PointCloudPrivate::depth_connection_ is connected
  current_time_,    \* PointCloudPrivate::current_time_, in nanoseconds
  frame_id_,        \* PointCloudPrivate::frame_id_
  entity_,          \* PointCloudPrivate::entity_, as the names of its ancestors
  pc_pub_,          \* PointCloudPrivate::pc_pub_: "unset", "advertised", "released"
  info_simTime,     \* _info.simTime of the most recent PostUpdate
  tickReady,        \* engine, scene and depth camera were there at the tick
  depth_errors,     \* ROS_ERROR lines of LoadDepthCamera (saturating)
  rgb_errors,       \* ROS_ERROR lines of LoadRgbCamera (saturating)
  connects,         \* calls of ConnectNewDepthFrame (saturating)
  last_call,        \* <<>> or the OnNewDepthFrame invocation in flight
  published         \* what that invocation gave pc_pub_.publish: <<>> or a cloud

vars == <<pc, crashed, engineLoaded, sceneCreated, depthSensor, rgbSensor,
          scene_, depth_camera_, rgb_camera_, rgb_image_, rgb_image_msg_,
          depth_connection_, current_time_, frame_id_, entity_, pc_pub_,
          info_simTime, tickReady, depth_errors, rgb_errors, connects,
          last_call, published>>

envVars == <<engineLoaded, sceneCreated, depthSensor, rgbSensor>>
logVars == <<depth_errors, rgb_errors>>

\* scene_->SensorByName(name), lines 185 and 216.  The scene holds the two
\* rendering cameras of the sensor entity: the simulator names them after
\* the entity without its world, the depth camera with the suffix _depth.
SensorByName(name) ==
  IF Len(entity_) = 0 THEN Null
  ELSE IF name = ScopedName(Tail(entity_), DelimColons) \o DepthSuffix
       THEN depthSensor
       ELSE IF name = ScopedName(Tail(entity_), DelimColons)
            THEN rgbSensor
            ELSE Null

\* A default-constructed ignition::rendering::Image and sensor_msgs::Image.
NoImage == [allocated |-> FALSE, size |-> 0, data |-> << >>]
NoImageMsg == [height |-> 0, width |-> 0, step |-> 0, data |-> << >>]

\* PointCloud::PointCloud(): a value-initialised PointCloudPrivate.
Init ==
  /\ pc = "new"
  /\ crashed = FALSE
  /\ engineLoaded = FALSE
  /\ sceneCreated = FALSE
  /\ depthSensor = Null
  /\ rgbSensor = Null
  /\ scene_ = FALSE
  /\ depth_camera_ = Null
  /\ rgb_camera_ = Null
  /\ rgb_image_ = NoImage
  /\ rgb_image_msg_ = NoImageMsg
  /\ depth_connection_ = FALSE
  /\ current_time_ = 0
  /\ frame_id_ = ""
  /\ entity_ = << >>
  /\ pc_pub_ = "unset"
  /\ info_simTime = 0
  /\ tickReady = FALSE
  /\ depth_errors = 0
  /\ rgb_errors = 0
  /\ connects = 0
  /\ last_call = << >>
  /\ published = << >>

\* ------------------------------------------------- the rendering subsystem
LoadEngine ==
  /\ ~crashed /\ ~engineLoaded
  /\ engineLoaded' = TRUE
  /\ UNCHANGED <<pc, crashed, sceneCreated, depthSensor, rgbSensor, scene_,
                 depth_camera_, rgb_camera_, rgb_image_, rgb_image_msg_,
                 depth_connection_, current_time_, frame_id_, entity_,
                 pc_pub_, info_simTime, tickReady, depth_errors, rgb_errors,
                 connects, last_call, published>>

CreateScene ==
  /\ ~crashed /\ engineLoaded /\ ~sceneCreated
  /\ sceneCreated' = TRUE
  /\ UNCHANGED <<pc, crashed, engineLoaded, depthSensor, rgbSensor, scene_,
                 depth_camera_, rgb_camera_, rgb_image_, rgb_image_msg_,
                 depth_connection_, current_time_, frame_id_, entity_,
                 pc_pub_, info_simTime, tickReady, depth_errors, rgb_errors,
                 connects, last_call, published>>

AddDepthSensor(s) ==
  /\ ~crashed /\ sceneCreated /\ depthSensor = Null
  /\ depthSensor' = s
  /\ UNCHANGED <<pc, crashed, engineLoaded, sceneCreated, rgbSensor, scene_,
                 depth_camera_, rgb_camera_, rgb_image_, rgb_image_msg_,
                 depth_connection_, current_time_, frame_id_, entity_,
                 pc_pub_, info_simTime, tickReady, depth_errors, rgb_errors,
                 connects, last_call, published>>

AddRgbSensor(s) ==
  /\ ~crashed /\ sceneCreated /\ rgbSensor = Null
  /\ rgbSensor' = s
  /\ UNCHANGED <<pc, crashed, engineLoaded, sceneCreated, depthSensor, scene_,
                 depth_camera_, rgb_camera_, rgb_image_, rgb_image_msg_,
                 depth_connection_, current_time_, frame_id_, entity_,
                 pc_pub_, info_simTime, tickReady, depth_errors, rgb_errors,
                 connects, last_call, published>>

\* ------------------------------------------------------- the update thread
\* PointCloud::Configure: the entity is the one the plugin is attached to,
\* the frame id comes from the SDF element, the publisher is advertised.
Configure(fid, entity) ==
  /\ ~crashed /\ pc = "new"
  /\ entity_' = entity
  /\ pc_pub_' = "advertised"
  /\ frame_id_' = fid
  /\ pc' = "idle"
  /\ UNCHANGED <<crashed, envVars, scene_, depth_camera_, rgb_camera_,
                 rgb_image_, rgb_image_msg_, depth_connection_, current_time_,
                 info_simTime, tickReady, logVars, connects, last_call,
                 published>>

\* PostUpdate with a return after line 159 even when the scene was found.
PostUpdate_ReturnAfterScene(simTime) ==
  /\ ~crashed /\ pc = "idle"
  /\ info_simTime' = simTime
  /\ current_time_' = simTime
  /\ tickReady' = (engineLoaded /\ sceneCreated
                   /\ DynamicCast("DepthCamera", depthSensor) # Null)
  /\ IF scene_
     THEN /\ pc' = "depth"
          /\ UNCHANGED scene_
     ELSE IF ~engineLoaded
          THEN /\ pc' = "idle"
               /\ UNCHANGED scene_
          ELSE /\ scene_' = sceneCreated
               /\ pc' = "idle"
  /\ UNCHANGED <<crashed, envVars, depth_camera_, rgb_camera_, rgb_image_,
                 rgb_image_msg_, depth_connection_, frame_id_, entity_,
                 pc_pub_, logVars, connects, last_call, published>>

\* PostUpdate with line 150 moved into the block of line 153.
PostUpdate_TimeInSceneBlock(simTime) ==
  /\ ~crashed /\ pc = "idle"
  /\ info_simTime' = simTime
  /\ current_time_' = IF scene_ THEN current_time_ ELSE simTime
  /\ tickReady' = (engineLoaded /\ sceneCreated
                   /\ DynamicCast("DepthCamera", depthSensor) # Null)
  /\ IF scene_
     THEN /\ pc' = "depth"
          /\ UNCHANGED scene_
     ELSE IF ~engineLoaded
          THEN /\ pc' = "idle"
               /\ UNCHANGED scene_
          ELSE /\ scene_' = sceneCreated
               /\ pc' = IF sceneCreated THEN "depth" ELSE "idle"
  /\ UNCHANGED <<crashed, envVars, depth_camera_, rgb_camera_, rgb_image_,
                 rgb_image_msg_, depth_connection_, frame_id_, entity_,
                 pc_pub_, logVars, connects, last_call, published>>

\* PostUpdate without the return of line 161.
PostUpdate_NoSceneReturn(simTime) ==
  /\ ~crashed /\ pc = "idle"
  /\ info_simTime' = simTime
  /\ current_time_' = simTime
  /\ tickReady' = (engineLoaded /\ sceneCreated
                   /\ DynamicCast("DepthCamera", depthSensor) # Null)
  /\ IF scene_
     THEN /\ pc' = "depth"
          /\ UNCHANGED scene_
     ELSE IF ~engineLoaded
          THEN /\ pc' = "idle"
               /\ UNCHANGED scene_
          ELSE /\ scene_' = sceneCreated
               /\ pc' = "depth"
  /\ UNCHANGED <<crashed, envVars, depth_camera_, rgb_camera_, rgb_image_,
                 rgb_image_msg_, depth_connection_, frame_id_, entity_,
                 pc_pub_, logVars, connects, last_call, published>>

\* PointCloud::PostUpdate, lines 150-162: store the time, find the scene.
PostUpdate(simTime) ==
  /\ ~crashed /\ pc = "idle"
  /\ info_simTime' = simTime
  /\ current_time_' = simTime
  /\ tickReady' = (engineLoaded /\ sceneCreated
                   /\ DynamicCast("DepthCamera", depthSensor) # Null)
  /\ IF scene_
     THEN /\ pc' = "depth"
          /\ UNCHANGED scene_
     ELSE IF ~engineLoaded
          THEN /\ pc' = "idle"
               /\ UNCHANGED scene_
          ELSE /\ scene_' = sceneCreated
               /\ pc' = IF sceneCreated THEN "depth" ELSE "idle"
  /\ UNCHANGED <<crashed, envVars, depth_camera_, rgb_camera_, rgb_image_,
                 rgb_image_msg_, depth_connection_, frame_id_, entity_,
                 pc_pub_, logVars, connects, last_call, published>>

\* LoadDepthCamera called on every tick, without the test of line 165.
LoadDepthCamera_NoGuard ==
  LET sensor == SensorByName(DepthSensorName(ScopedName(entity_, DelimColons)))
  IN
  /\ ~crashed /\ pc = "depth"
  /\ IF sensor = Null
     THEN /\ pc' = "rgb"
          /\ UNCHANGED <<depth_camera_, depth_errors>>
     ELSE /\ depth_camera_' = DynamicCast("DepthCamera", sensor)
          /\ IF DynamicCast("DepthCamera", sensor) = Null
             THEN /\ depth_errors' = Min(depth_errors + 1, MaxLog)
                  /\ pc' = "rgb"
             ELSE /\ pc' = "connect"
                  /\ UNCHANGED depth_errors
  /\ UNCHANGED <<crashed, envVars, scene_, rgb_camera_, rgb_image_,
                 rgb_image_msg_, depth_connection_, current_time_, frame_id_,
                 entity_, pc_pub_, info_simTime, tickReady, rgb_errors,
                 connects, last_call, published>>

\* LoadDepthCamera casting into a local and connecting through it, the
\* member depth_camera_ never stored.
LoadDepthCamera_NoStore ==
  LET sensor == SensorByName(DepthSensorName(ScopedName(entity_, DelimColons)))
  IN
  /\ ~crashed /\ pc = "depth"
  /\ IF depth_camera_ # Null
     THEN /\ pc' = "rgb"
          /\ UNCHANGED <<depth_camera_, depth_errors>>
     ELSE IF sensor = Null
          THEN /\ pc' = "rgb"
               /\ UNCHANGED <<depth_camera_, depth_errors>>
          ELSE /\ UNCHANGED depth_camera_
               /\ IF DynamicCast("DepthCamera", sensor) = Null
                  THEN /\ depth_errors' = Min(depth_errors + 1, MaxLog)
                       /\ pc' = "rgb"
                  ELSE /\ pc' = "connect"
                       /\ UNCHANGED depth_errors
  /\ UNCHANGED <<crashed, envVars, scene_, rgb_camera_, rgb_image_,
                 rgb_image_msg_, depth_connection_, current_time_, frame_id_,
                 entity_, pc_pub_, info_simTime, tickReady, rgb_errors,
                 connects, last_call, published>>

\* LoadDepthCamera ending the tick when the cast of line 191 fails.
LoadDepthCamera_FailEndsTick ==
  LET sensor == SensorByName(DepthSensorName(ScopedName(entity_, DelimColons)))
  IN
  /\ ~crashed /\ pc = "depth"
  /\ IF depth_camera_ # Null
     THEN /\ pc' = "rgb"
          /\ UNCHANGED <<depth_camera_, depth_errors>>
     ELSE IF sensor = Null
          THEN /\ pc' = "rgb"
               /\ UNCHANGED <<depth_camera_, depth_errors>>
          ELSE /\ depth_camera_' = DynamicCast("DepthCamera", sensor)
               /\ IF DynamicCast("DepthCamera", sensor) = Null
                  THEN /\ depth_errors' = Min(depth_errors + 1, MaxLog)
                       /\ pc' = "idle"
                  ELSE /\ pc' = "connect"
                       /\ UNCHANGED depth_errors
  /\ UNCHANGED <<crashed, envVars, scene_, rgb_camera_, rgb_image_,
                 rgb_image_msg_, depth_connection_, current_time_, frame_id_,
                 entity_, pc_pub_, info_simTime, tickReady, rgb_errors,
                 connects, last_call, published>>

\* PostUpdate lines 165-168 and LoadDepthCamera lines 180-198.
LoadDepthCamera ==
  LET sensor == SensorByName(DepthSensorName(ScopedName(entity_, DelimColons)))
  IN
  /\ ~crashed /\ pc = "depth"
  /\ IF depth_camera_ # Null
     THEN /\ pc' = "rgb"
          /\ UNCHANGED <<depth_camera_, depth_errors>>
     ELSE IF sensor = Null
          THEN /\ pc' = "rgb"
               /\ UNCHANGED <<depth_camera_, depth_errors>>
          ELSE /\ depth_camera_' = DynamicCast("DepthCamera", sensor)
               /\ IF DynamicCast("DepthCamera", sensor) = Null
                  THEN /\ depth_errors' = Min(depth_errors + 1, MaxLog)
                       /\ pc' = "rgb"
                  ELSE /\ pc' = "connect"
                       /\ UNCHANGED depth_errors
  /\ UNCHANGED <<crashed, envVars, scene_, rgb_camera_, rgb_image_,
                 rgb_image_msg_, depth_connection_, current_time_, frame_id_,
                 entity_, pc_pub_, info_simTime, tickReady, rgb_errors,
                 connects, last_call, published>>

\* LoadDepthCamera lines 200-203: register the depth frame callback.
ConnectNewDepthFrame ==
  /\ ~crashed /\ pc = "connect"
  /\ depth_connection_' = TRUE
  /\ connects' = Min(connects + 1, MaxLog)
  /\ pc' = "rgb"
  /\ UNCHANGED <<crashed, envVars, scene_, depth_camera_, rgb_camera_,
                 rgb_image_, rgb_image_msg_, current_time_, frame_id_,
                 entity_, pc_pub_, info_simTime, tickReady, logVars,
                 last_call, published>>

\* PostUpdate lines 169-172 and LoadRgbCamera lines 211-228.
LoadRgbCamera ==
  LET sensor == SensorByName(RgbSensorName(ScopedName(entity_, DelimColons)))
  IN
  /\ ~crashed /\ pc = "rgb"
  /\ IF rgb_camera_ # Null
     THEN /\ pc' = "idle"
          /\ UNCHANGED <<rgb_camera_, rgb_errors>>
     ELSE IF sensor = Null
          THEN /\ pc' = "idle"
               /\ UNCHANGED <<rgb_camera_, rgb_errors>>
          ELSE /\ rgb_camera_' = DynamicCast("Camera", sensor)
               /\ IF DynamicCast("Camera", sensor) = Null
                  THEN /\ rgb_errors' = Min(rgb_errors + 1, MaxLog)
                       /\ pc' = "idle"
                  ELSE /\ pc' = "create"
                       /\ UNCHANGED rgb_errors
  /\ UNCHANGED <<crashed, envVars, scene_, depth_camera_, rgb_image_,
                 rgb_image_msg_, depth_connection_, current_time_, frame_id_,
                 entity_, pc_pub_, info_simTime, tickReady, depth_errors,
                 connects, last_call, published>>

\* LoadRgbCamera line 230: rgb_image_ = rgb_camera_->CreateImage(), a buffer
\* of the camera's native size whose bytes are not initialised.
CreateImage ==
  /\ ~crashed /\ pc = "create"
  /\ rgb_image_' = [allocated |-> TRUE,
                    size |-> 3 * rgb_camera_.w * rgb_camera_.h,
                    data |-> [k \in 1..(3 * rgb_camera_.w * rgb_camera_.h) |-> Uninit]]
  /\ pc' = "idle"
  /\ UNCHANGED <<crashed, envVars, scene_, depth_camera_, rgb_camera_,
                 rgb_image_msg_, depth_connection_, current_time_, frame_id_,
                 entity_, pc_pub_, info_simTime, tickReady, logVars, connects,
                 last_call, published>>

\* ------------------------------------------------------------ destruction
\* PointCloudPrivate has no destructor of its own: when the plugin is
\* destroyed its members are destroyed in the reverse order of their
\* declaration (lines 66-102): the strings and the time, then pc_pub_ and
\* rosnode_, then depth_connection_, then rgb_image_msg_, rgb_image_ and
\* rgb_camera_, then depth_camera_, entity_ and scene_.  The plugin is
\* destroyed between two ticks; a step waits for the callback in flight to
\* be observed.
Destroy_pc_pub_ ==
  /\ ~crashed /\ pc = "idle" /\ last_call = << >>
  /\ pc_pub_' = "released"
  /\ pc' = "~depth_connection_"
  /\ UNCHANGED <<crashed, envVars, scene_, depth_camera_, rgb_camera_,
                 rgb_image_, rgb_image_msg_, depth_connection_, current_time_,
                 frame_id_, entity_, info_simTime, tickReady, logVars,
                 connects, last_call, published>>

Destroy_depth_connection_ ==
  /\ ~crashed /\ pc = "~depth_connection_" /\ last_call = << >>
  /\ depth_connection_' = FALSE
  /\ pc' = "~rgb_camera_"
  /\ UNCHANGED <<crashed, envVars, scene_, depth_camera_, rgb_camera_,
                 rgb_image_, rgb_image_msg_, current_time_, frame_id_,
                 entity_, pc_pub_, info_simTime, tickReady, logVars, connects,
                 last_call, published>>

Destroy_rgb_camera_ ==
  /\ ~crashed /\ pc = "~rgb_camera_" /\ last_call = << >>
  /\ rgb_image_msg_' = NoImageMsg
  /\ rgb_image_' = NoImage
  /\ rgb_camera_' = Null
  /\ pc' = "~depth_camera_"
  /\ UNCHANGED <<crashed, envVars, scene_, depth_camera_, depth_connection_,
                 current_time_, frame_id_, entity_, pc_pub_, info_simTime,
                 tickReady, logVars, connects, last_call, published>>

Destroy_depth_camera_ ==
  /\ ~crashed /\ pc = "~depth_camera_" /\ last_call = << >>
  /\ depth_camera_' = Null
  /\ scene_' = FALSE
  /\ pc' = "destroyed"
  /\ UNCHANGED <<crashed, envVars, rgb_camera_, rgb_image_, rgb_image_msg_,
                 depth_connection_, current_time_, frame_id_, entity_,
                 pc_pub_, info_simTime, tickReady, logVars, connects,
                 last_call, published>>

\* ---------------------------------------------------- the rendering thread
\* Line 239: the early return of OnNewDepthFrame.
Gate(subs, width, height) == ~(subs <= 0 \/ height = 0 \/ width = 0)

\* Lines 243-252: the two sanity warnings, which do not return.
Warnings(channels, format) ==
  (IF channels # 1 THEN 1 ELSE 0) + (IF format # "FLOAT32" THEN 1 ELSE 0)

\* Line 257: ignition::math::durationToSecNsec.
DurationToSecNsec(t) == <<t \div NsPerSec, t % NsPerSec>>

\* Lines 259-270: the message header and layout.  Line 265 multiplies the
\* point_step of a fresh message, which is 0; setPointCloud2FieldsByString
\* (line 269) sets point_step and row_step = width * point_step; resize
\* (line 270) rewrites width, height and row_step as sensor_msgs does.
ModifierResize(m, size) ==
  IF m.height = 1
  THEN [m EXCEPT !.width = size, !.row_step = size * m.point_step]
  ELSE IF m.width = 1
       THEN [m EXCEPT !.height = size]
       ELSE [m EXCEPT !.height = 1, !.width = size,
                      !.row_step = size * m.point_step]

\* MsgLayout with the row_step of line 265 kept by line 269: the field
\* setup sets point_step alone.
MsgLayout_RowStepOfLine265(fid, time, width, height) ==
  LET sec_nsec == DurationToSecNsec(time)
      m0 == [frame_id |-> fid, sec |-> sec_nsec[1], nsec |-> sec_nsec[2],
             width |-> width, height |-> height, point_step |-> 0,
             row_step |-> 0 * width]
      m1 == [m0 EXCEPT !.point_step = PointStepXyzRgb]
  IN ModifierResize(m1, width * height)

MsgLayout(fid, time, width, height) ==
  LET sec_nsec == DurationToSecNsec(time)
      m0 == [frame_id |-> fid, sec |-> sec_nsec[1], nsec |-> sec_nsec[2],
             width |-> width, height |-> height, point_step |-> 0,
             row_step |-> 0 * width]
      m1 == [m0 EXCEPT !.point_step = PointStepXyzRgb,
                       !.row_step = width * PointStepXyzRgb]
  IN ModifierResize(m1, width * height)

\* The clip test with is_dense = true written in the else of line 326.
ClipPixel_InRangeSetsDense(depth, near, far, dense) ==
  LET afterFar == IF depth > far
                  THEN [z |-> INF_D, is_dense |-> FALSE]
                  ELSE [z |-> 0, is_dense |-> dense]
  IN IF depth < near
     THEN [z |-> -INF_D, is_dense |-> FALSE]
     ELSE [z |-> depth, is_dense |-> (depth <= far)]

\* The clip test with the near comparison of line 321 not strict.
ClipPixel_NearInclusive(depth, near, far, dense) ==
  LET afterFar == IF depth > far
                  THEN [z |-> INF_D, is_dense |-> FALSE]
                  ELSE [z |-> 0, is_dense |-> dense]
  IN IF depth <= near
     THEN [z |-> -INF_D, is_dense |-> FALSE]
     ELSE [z |-> depth, is_dense |-> afterFar.is_dense]

\* Lines 316-329: the clip test of one pixel; z is 0 after resize.
ClipPixel(depth, near, far, dense) ==
  LET afterFar == IF depth > far
                  THEN [z |-> INF_D, is_dense |-> FALSE]
                  ELSE [z |-> 0, is_dense |-> dense]
  IN IF depth < near
     THEN [z |-> -INF_D, is_dense |-> FALSE]
     ELSE [z |-> depth, is_dense |-> afterFar.is_dense]

\* Lines 333-353: the colour of pixel (i, j); data is rgb_image_msg_.data.
ColorAt(data, width, height, i, j) ==
  IF Len(data) = height * width * 3
  THEN [r |-> data[i * 3 + j * width * 3 + 0 + 1],
        g |-> data[i * 3 + j * width * 3 + 1 + 1],
        b |-> data[i * 3 + j * width * 3 + 2 + 1]]
  ELSE IF Len(data) = height * width
       THEN [r |-> data[i + j * width + 1],
             g |-> data[i + j * width + 1],
             b |-> data[i + j * width + 1]]
       ELSE [r |-> 0, g |-> 0, b |-> 0]

\* Lines 288-355: the conversion loop.  is_dense starts true (line 266).
Convert(scan, width, height, near, far, data) ==
  LET RECURSIVE Loop(_, _, _, _)
      Loop(j, i, index, acc) ==
        IF j >= height THEN acc
        ELSE IF i >= width THEN Loop(j + 1, 0, index, acc)
        ELSE LET depth == scan[index + 1]
                 clip == ClipPixel(depth, near, far, acc.is_dense)
                 col == ColorAt(data, width, height, i, j)
             IN Loop(j, i + 1, index + 1,
                     [points |-> Append(acc.points,
                                        [z |-> clip.z, r |-> col.r,
                                         g |-> col.g, b |-> col.b]),
                      is_dense |-> clip.is_dense])
  IN Loop(0, 0, 0, [points |-> << >>, is_dense |-> TRUE])

\* Line 283: fillImage copies `need` bytes from the image buffer; bytes read
\* past the end of the buffer (or from a buffer that is not there) are g.
FillImage(buffer, need, g) ==
  [k \in 1..need |-> IF k <= Len(buffer) THEN buffer[k] ELSE g]

\* Lines 279-284: what the capture and copy can do.  Copying 3*W*H bytes out
\* of a buffer that is smaller is a read past its end; a callback that runs
\* between lines 222 and 230 races with the assignment of rgb_image_ and
\* copies from a buffer that is missing or not yet written.  Both are
\* undefined: the process dies or the copy carries arbitrary bytes.
RgbOutcomes(width, height) ==
  IF rgb_camera_ = Null THEN {[kind |-> "none", g |-> 0]}
  ELSE IF rgb_image_.allocated /\ 3 * width * height <= rgb_image_.size
       THEN {[kind |-> "ok", g |-> 0]}
       ELSE {[kind |-> "crash", g |-> 0]}
              \cup {[kind |-> "garbage", g |-> g] : g \in GarbageBytes}

CaptureSeeds == IF rgb_camera_ # Null /\ rgb_image_.allocated THEN Seeds ELSE {0}

\* PointCloudPrivate::OnNewDepthFrame, run by the depth camera's event for a
\* connected callback.
OnNewDepthFrame(subs, width, height, channels, format, scan, seed, out) ==
  LET call == [subs |-> subs, width |-> width, height |-> height,
               channels |-> channels, format |-> format, scan |-> scan,
               simTime |-> info_simTime, depth_camera |-> depth_camera_,
               rgb |-> FALSE, captured |-> FALSE, frame |-> << >>,
               allocated |-> rgb_image_.allocated,
               image_size |-> rgb_image_.size, warnings |-> 0, pubs |-> 0]
  IN
  /\ ~crashed /\ depth_connection_ /\ last_call = << >>
  /\ IF ~Gate(subs, width, height)
     THEN /\ last_call' = <<[call EXCEPT !.channels = 0, !.format = "",
                                          !.scan = << >>]>>
          /\ published' = << >>
          /\ crashed' = (out.kind = "crash")
          /\ UNCHANGED <<rgb_image_, rgb_image_msg_>>
     ELSE
       LET frame == IF rgb_camera_ # Null /\ rgb_image_.allocated
                    THEN Frame(seed, rgb_image_.size)
                    ELSE << >>
           data == IF rgb_camera_ = Null
                   THEN rgb_image_msg_.data
                   ELSE FillImage(frame, 3 * width * height, out.g)
           dies == out.kind = "crash" \/ depth_camera_ = Null
           layout == MsgLayout(frame_id_, current_time_, width, height)
           cloud == Convert(scan, width, height, depth_camera_.near,
                            depth_camera_.far, data)
           ran == [call EXCEPT !.rgb = (rgb_camera_ # Null),
                               !.captured = (rgb_camera_ # Null),
                               !.frame = frame,
                               !.warnings = Warnings(channels, format),
                               !.pubs = IF dies THEN 0 ELSE 1]
       IN
       /\ last_call' = <<ran>>
       /\ rgb_image_' = IF rgb_camera_ # Null /\ rgb_image_.allocated
                        THEN [rgb_image_ EXCEPT !.data = frame]
                        ELSE rgb_image_
       /\ rgb_image_msg_' = IF rgb_camera_ = Null \/ out.kind = "crash"
                            THEN rgb_image_msg_
                            ELSE [height |-> height, width |-> width,
                                  step |-> 3 * width, data |-> data]
       /\ crashed' = dies
       /\ published' = IF dies THEN << >>
                       ELSE <<[header |-> [frame_id |-> layout.frame_id,
                                            stamp |-> [sec |-> layout.sec,
                                                       nsec |-> layout.nsec]],
                               width |-> layout.width,
                               height |-> layout.height,
                               point_step |-> layout.point_step,
                               row_step |-> layout.row_step,
                               is_dense |-> cloud.is_dense,
                               points |-> cloud.points]>>
  /\ UNCHANGED <<pc, envVars, scene_, depth_camera_, rgb_camera_,
                 depth_connection_, current_time_, frame_id_, entity_,
                 pc_pub_, info_simTime, tickReady, logVars, connects>>

\* Line 239 on a publisher that was destroyed: pc_pub_.getNumSubscribers()
\* is a call on an object whose lifetime has ended.  The released publisher
\* has no implementation left and reports no subscriber, or the process dies.
ReleasedPublisherOutcomes ==
  {[kind |-> "none", g |-> 0], [kind |-> "crash", g |-> 0]}

\* The rendering thread produces a depth frame.
NewDepthFrame ==
  \E subs \in 0..1, width \in 0..MaxWidth, height \in 0..MaxHeight :
    IF pc_pub_ = "released"
    THEN /\ subs = 0
         /\ \E out \in ReleasedPublisherOutcomes :
              OnNewDepthFrame(subs, width, height, 1, "FLOAT32", << >>, 0,
                              out)
    ELSE IF Gate(subs, width, height)
         THEN \E cf \in ChannelFormats, seed \in CaptureSeeds,
                 scan \in Scans(width * height),
                 out \in RgbOutcomes(width, height) :
                OnNewDepthFrame(subs, width, height, cf[1], cf[2], scan,
                                seed, out)
         ELSE OnNewDepthFrame(subs, width, height, 1, "FLOAT32", << >>, 0,
                              [kind |-> "none", g |-> 0])

\* The callback returns to the rendering thread, which goes on to the next
\* frame: one depth callback is in flight at a time.
ReturnFromCallback ==
  /\ ~crashed /\ last_call # << >>
  /\ last_call' = << >>
  /\ published' = << >>
  /\ UNCHANGED <<pc, crashed, envVars, scene_, depth_camera_, rgb_camera_,
                 rgb_image_, rgb_image_msg_, depth_connection_, current_time_,
                 frame_id_, entity_, pc_pub_, info_simTime, tickReady,
                 logVars, connects>>

Next ==
  \/ LoadEngine
  \/ CreateScene
  \/ \E s \in DepthNameSensors : AddDepthSensor(s)
  \/ \E s \in RgbNameSensors : AddRgbSensor(s)
  \/ \E c \in Configurations : Configure(c.frame_id, c.entity)
  \/ \E t \in SimTimes : PostUpdate(t)
  \/ LoadDepthCamera
  \/ ConnectNewDepthFrame
  \/ LoadRgbCamera
  \/ CreateImage
  \/ Destroy_pc_pub_
  \/ Destroy_depth_connection_
  \/ Destroy_rgb_camera_
  \/ Destroy_depth_camera_
  \/ NewDepthFrame
  \/ ReturnFromCallback

Spec == Init /\ [][Next]_vars

\* ------------------------------------------------------------------ claims
\* The invocation of the callback in flight and what it published.
Call == last_call[1]
Cloud == published[1]
Called == Len(last_call) > 0
Published == Len(published) > 0
IsInfinite(z) == z = INF_D \/ z = -INF_D
Pixels == 1..Len(Cloud.points)

\* C1: in every published message is_dense is true exactly when no emitted
\* point has z equal to +infinity or -infinity.
C1_DenseIffNoInfiniteZ ==
  Published =>
    (Cloud.is_dense <=> \A k \in Pixels : ~IsInfinite(Cloud.points[k].z))

\* C2: every pixel whose raw depth is strictly greater than the far clip
\* plane is emitted with z = +infinity, and the message is not dense.
C2_FarClipGivesPlusInfinity ==
  Published =>
    \A k \in Pixels :
      Call.scan[k] > Call.depth_camera.far =>
        Cloud.points[k].z = INF_D /\ ~Cloud.is_dense

\* C3: a pixel whose raw depth is strictly below the near clip plane is
\* emitted with z = -infinity and clears is_dense; a pixel with
\* near <= d <= far, the two boundaries included, is emitted with z = d and
\* does not clear is_dense (the flag it leaves is the flag it found, and a
\* message whose pixels are all in range is dense).
C3_NearClipAndInRange ==
  /\ Published =>
       /\ \A k \in Pixels :
            LET d == Call.scan[k]
                near == Call.depth_camera.near
                far == Call.depth_camera.far
            IN /\ d < near => Cloud.points[k].z = -INF_D /\ ~Cloud.is_dense
               /\ (near <= d /\ d <= far) => Cloud.points[k].z = d
       /\ (\A k \in Pixels : /\ Call.depth_camera.near <= Call.scan[k]
                             /\ Call.scan[k] <= Call.depth_camera.far)
            => Cloud.is_dense
  /\ \A d \in DepthVals \cup InRangeVals, dense \in BOOLEAN :
       (DepthCam.near <= d /\ d <= DepthCam.far)
         => ClipPixel(d, DepthCam.near, DepthCam.far, dense).is_dense = dense

\* C3 witness: a published frame with a pixel below the near plane, emitted
\* as -infinity, and a pixel exactly on the far plane, emitted as it is.
C3_Witness ==
  /\ Published
  /\ \E k \in Pixels : /\ Call.scan[k] < Call.depth_camera.near
                       /\ Cloud.points[k].z = -INF_D
  /\ \E k \in Pixels : /\ Call.scan[k] = Call.depth_camera.far
                       /\ Cloud.points[k].z = Call.scan[k]

\* C4: an invocation of OnNewDepthFrame publishes exactly one message when
\* the subscriber count, the width and the height are all positive, and
\* otherwise publishes nothing and captures no RGB frame.
C4_GateDecidesPublish ==
  Called =>
    IF Gate(Call.subs, Call.width, Call.height)
    THEN Call.pubs = 1 /\ Len(published) = 1
    ELSE Call.pubs = 0 /\ Len(published) = 0 /\ ~Call.captured

\* C5: a sensor that cannot be cast is abandoned: the error of either camera
\* is logged once, whatever the number of ticks.
C5_CastErrorLoggedOnce == depth_errors <= 1 /\ rgb_errors <= 1

\* C6: once the scene handle, the depth camera handle or the RGB camera
\* handle is non-null no step changes it, and ConnectNewDepthFrame is called
\* at most once.
C6_ResolutionIdempotent ==
  [][ /\ pc_pub_' = "advertised" =>
           /\ scene_ => scene_'
           /\ depth_camera_ # Null => depth_camera_' = depth_camera_
           /\ rgb_camera_ # Null => rgb_camera_' = rgb_camera_
      /\ connects' <= 1 ]_vars

\* C6 witness: a tick that found both cameras already resolved has gone past
\* the depth camera test.
C6_Witness ==
  /\ pc = "rgb" /\ depth_camera_ # Null /\ rgb_camera_ # Null
  /\ connects = 1 /\ rgb_image_.allocated

\* C7: the callback runs, and a cloud is published, only after a tick has
\* stored a non-null depth camera handle and connected the callback: the
\* handle the callback reads is never null.
C7_CallbackAfterResolution ==
  /\ Called => /\ Call.depth_camera # Null
               /\ depth_camera_ # Null
               /\ depth_connection_ /\ connects >= 1
  /\ depth_connection_ => depth_camera_ # Null

\* C7 witness: the callback has run while the tick that connected it was
\* still in progress, and it published.
C7_Witness == Published /\ pc = "rgb" /\ Call.depth_camera = DepthCam

\* C8: a tick that finds the engine, the scene or the named sensor missing
\* logs nothing for it and leaves the handle null; a tick that starts with
\* the engine, the scene and a depth camera of the derived name present ends
\* with the depth camera resolved and the callback connected.
C8_SilentRetryStep ==
  /\ (pc = "idle" /\ ~scene_ /\ ~(engineLoaded /\ sceneCreated)
      /\ pc_pub_' = "advertised")
       => /\ depth_errors' = depth_errors /\ rgb_errors' = rgb_errors
          /\ ~scene_' /\ depth_camera_' = Null /\ rgb_camera_' = Null
          /\ pc' \in {"idle"}
  /\ (pc = "depth" /\ pc' # "depth" /\ depth_camera_ = Null
      /\ depthSensor = Null)
       => depth_errors' = depth_errors /\ depth_camera_' = Null
  /\ (pc = "rgb" /\ pc' # "rgb" /\ rgb_camera_ = Null /\ rgbSensor = Null)
       => rgb_errors' = rgb_errors /\ rgb_camera_' = Null

C8_RetryUntilResolved ==
  [][ /\ C8_SilentRetryStep
      /\ (pc' = "idle" /\ tickReady')
           => (depth_camera_' # Null /\ depth_connection_') ]_vars

\* C8 witness: a tick has ended with the depth camera resolved and
\* connected, the RGB sensor still missing from the scene, nothing logged.
C8_Witness ==
  /\ pc = "idle" /\ tickReady /\ depth_connection_
  /\ rgbSensor = Null /\ rgb_camera_ = Null
  /\ depth_errors = 0 /\ rgb_errors = 0

\* C9: the stamp of a published message is the simulated time of the most
\* recent tick before the callback, as seconds and nanoseconds with
\* 0 <= nanoseconds < 10^9, and its frame_id is the configured one.
C9_StampIsLastTickTime ==
  Published =>
    /\ Cloud.header.stamp.sec * NsPerSec + Cloud.header.stamp.nsec
         = Call.simTime
    /\ 0 <= Cloud.header.stamp.nsec /\ Cloud.header.stamp.nsec < NsPerSec
    /\ Call.simTime \in SimTimes
    /\ Cloud.header.frame_id = frame_id_ /\ frame_id_ \in FrameIds

\* C9 witness: a message stamped 1 s 500000001 ns was published in a tick
\* later than the one that cached the scene.
C9_Witness ==
  /\ Published /\ Cloud.header.stamp.sec = 1
  /\ Cloud.header.stamp.nsec = 500000001
  /\ pc = "depth" /\ depth_connection_

\* C10: in a published message every pixel (i, j) is black when no RGB
\* camera is resolved, and carries the three bytes at offset (j*W + i)*3 of
\* the RGB frame captured in the same callback when one is.
C10_ColourFromCapturedFrame ==
  Published =>
    \A j \in 0..(Call.height - 1), i \in 0..(Call.width - 1) :
      LET pt == Cloud.points[j * Call.width + i + 1]
          off == (j * Call.width + i) * 3
      IN IF ~Call.rgb
         THEN pt.r = 0 /\ pt.g = 0 /\ pt.b = 0
         ELSE /\ off + 3 <= Len(Call.frame)
              /\ pt.r = Call.frame[off + 1]
              /\ pt.g = Call.frame[off + 2]
              /\ pt.b = Call.frame[off + 3]

\* C11: a published message reports the width and the height of the depth
\* frame it was built from and holds width * height points, the k-th one
\* built from the k-th depth value of the frame in row-major order.
C11_CloudHasFrameShape ==
  Published =>
    /\ Cloud.width = Call.width /\ Cloud.height = Call.height
    /\ Len(Cloud.points) = Call.width * Call.height
    /\ \A k \in Pixels :
         Cloud.points[k].z = ClipPixel(Call.scan[k], Call.depth_camera.near,
                                       Call.depth_camera.far, TRUE).z

\* The part of C11 that the resize of line 270 leaves alone: the number of
\* points and their order.
C11_PointsRowMajor ==
  Published =>
    /\ Len(Cloud.points) = Call.width * Call.height
    /\ Cloud.width * Cloud.height = Call.width * Call.height
    /\ \A k \in Pixels :
         Cloud.points[k].z = ClipPixel(Call.scan[k], Call.depth_camera.near,
                                       Call.depth_camera.far, TRUE).z

\* C12: every published message has row_step = point_step * width, with
\* point_step the 32 bytes of the xyz + rgb layout it carries.
C12_RowStepIsPointStepTimesWidth ==
  Published =>
    /\ Cloud.point_step = PointStepXyzRgb
    /\ Cloud.row_step = Cloud.point_step * Cloud.width

\* C12 witness: a frame of one column and two rows was published, the case
\* in which the resize of line 270 does not rewrite row_step.
C12_Witness ==
  /\ Published /\ Call.width = 1 /\ Call.height = 2
  /\ Cloud.row_step = PointStepXyzRgb

\* C13: in a tick with the scene cached the depth camera step is taken and
\* then, whatever it did (skipped, sensor missing, cast failed, connected),
\* the RGB camera step; each step casts the sensor it finds whatever the
\* state of the other camera; and a callback that passes the gate with no
\* RGB camera resolved publishes a cloud whose colour bytes are all 0.
C13_CamerasIndependent ==
  [][ /\ (pc = "idle" /\ pc' # "idle" /\ scene_ /\ pc_pub_' = "advertised")
           => pc' = "depth"
      /\ (pc = "depth" /\ pc' # "depth") => pc' \in {"connect", "rgb"}
      /\ (pc = "connect" /\ pc' # "connect") => pc' = "rgb"
      /\ (pc = "depth" /\ pc' # "depth" /\ depth_camera_ = Null)
           => depth_camera_' = DynamicCast("DepthCamera", depthSensor)
      /\ (pc = "rgb" /\ pc' # "rgb" /\ rgb_camera_ = Null)
           => rgb_camera_' = DynamicCast("Camera", rgbSensor)
      /\ (Called' /\ Gate(Call.subs, Call.width, Call.height)' /\ ~Call.rgb')
           => /\ Published'
              /\ \A k \in Pixels' : /\ Cloud.points[k].r' = 0
                                   /\ Cloud.points[k].g' = 0
                                   /\ Cloud.points[k].b' = 0 ]_vars

\* C13 witness: the sensor of the RGB name is not a camera, its cast failed
\* and was logged, and a depth frame was published all black; the tick that
\* follows has again gone on to the RGB step.
C13_Witness ==
  /\ Published /\ ~Call.rgb /\ Len(Cloud.points) = 4
  /\ rgbSensor = OtherSensor /\ rgb_errors >= 1 /\ rgb_camera_ = Null
  /\ pc = "rgb"
  /\ \A k \in Pixels : /\ Cloud.points[k].r = 0 /\ Cloud.points[k].g = 0
                       /\ Cloud.points[k].b = 0

\* C13, the converse case: the sensor of the depth name is not a depth
\* camera while the RGB camera is resolved and its image created.
C13_WitnessDepthFailed ==
  /\ depth_errors >= 1 /\ depth_camera_ = Null
  /\ rgb_camera_ # Null /\ rgb_image_.allocated

\* C14: for the scoped name s of the sensor entity, the RGB camera is looked
\* up under what follows the first "::" of s, which is the scoped name of
\* the entity without its first segment, and the depth camera under that
\* name followed by "_depth"; a handle that is resolved is the scene's
\* sensor of that name.
C14_LookupNames ==
  /\ \A e \in Entities :
       LET s == ScopedName(e, DelimColons)
           d == DepthSensorName(s)
           r == RgbSensorName(s)
       IN /\ \E i \in 1..(Len(s) - 1) :
               /\ SubSeq(s, i, i + 1) = DelimColons
               /\ \A j \in 1..(i - 1) : SubSeq(s, j, j + 1) # DelimColons
               /\ r = SubSeq(s, i + 2, Len(s))
          /\ r = ScopedName(Tail(e), DelimColons)
          /\ d = r \o DepthSuffix
          /\ Len(d) = Len(r) + Len(DepthSuffix)
  /\ depth_camera_ # Null => depth_camera_ = depthSensor
  /\ rgb_camera_ # Null => rgb_camera_ = rgbSensor

\* C14 witness: the entity w::m::l::ca, whose name holds three "::", has
\* its two cameras resolved under the names m::l::ca_depth and m::l::ca.
C14_Witness ==
  /\ Len(entity_) = 4
  /\ DepthSensorName(ScopedName(entity_, DelimColons))
       = <<"m", ":", ":", "l", ":", ":", "c", "a", "_", "d", "e", "p", "t", "h">>
  /\ RgbSensorName(ScopedName(entity_, DelimColons))
       = <<"m", ":", ":", "l", ":", ":", "c", "a">>
  /\ depth_camera_ = DepthCam /\ rgb_camera_ = RgbCam

\* C15: the plugin's resources are released in the order subscription,
\* camera handles, publisher: the publisher is released only when the
\* depth frame subscription and the two camera handles are gone, a camera
\* handle only when the subscription is gone, and the callback never runs
\* with the publisher or the depth camera handle released.
C15_ReleaseOrder ==
  /\ pc_pub_ = "released" =>
       ~depth_connection_ /\ depth_camera_ = Null /\ rgb_camera_ = Null
  /\ (pc \in {"~depth_camera_", "destroyed"}) => ~depth_connection_
  /\ Called => pc_pub_ = "advertised" /\ depth_camera_ # Null

\* The part of C15 that the order of the declarations gives: the two camera
\* handles are released after the subscription, and the callback never
\* runs with the depth camera handle released.
C15_CamerasAfterSubscription ==
  /\ (pc \in {"~depth_camera_", "destroyed"}) =>
       ~depth_connection_ /\ rgb_camera_ = Null
  /\ pc = "destroyed" => depth_camera_ = Null
  /\ Called => depth_camera_ # Null

\* The callback that C15 excludes: it ran after pc_pub_ was destroyed.
C15_CallbackAfterPublisherReleased ==
  Called /\ pc_pub_ = "released" /\ depth_connection_

\* A step of the depth frame callback on the rendering thread.
CallbackStep == last_call = << >> /\ last_call' # << >>

\* C16: while the plugin lives, every step that changes rgb_image_ or
\* rgb_image_msg_ is a step of the depth frame callback: no step of the
\* update thread writes either of them.
C16_ImageWrittenOnlyByCallback ==
  [][ (pc_pub_' = "advertised"
       /\ (rgb_image_' # rgb_image_ \/ rgb_image_msg_' # rgb_image_msg_))
        => CallbackStep ]_vars

\* The half of C16 that holds: rgb_image_msg_ is written by the callback
\* alone.
C16_MsgWrittenOnlyByCallback ==
  [][ (pc_pub_' = "advertised" /\ rgb_image_msg_' # rgb_image_msg_)
        => CallbackStep ]_vars

\* C17: the scene handle becomes non-null only in a tick that finds the
\* engine and the scene, so a non-null handle means both were found; and a
\* camera lookup is a step of a tick whose scene handle is non-null.
C17_SceneBeforeLookup ==
  [][ /\ (~scene_ /\ scene_') => (pc = "idle" /\ engineLoaded /\ sceneCreated)
      /\ scene_' => (engineLoaded' /\ sceneCreated')
      /\ (pc \in {"depth", "rgb"} /\ pc' # pc) => (scene_ /\ scene_')
      /\ (pc' \in {"depth", "connect", "rgb", "create"}) => scene_' ]_vars

\* C17 witness: a tick has looked the depth camera up through the cached
\* scene and found it.
C17_Witness ==
  /\ pc = "rgb" /\ scene_ /\ depth_camera_ # Null
  /\ engineLoaded /\ sceneCreated

\* C18: a published message is dense exactly when every depth value of its
\* frame lies in [near, far]; one pixel beyond far or below near clears the
\* flag, and no pixel sets a cleared flag again.
C18_DenseIffAllInRange ==
  /\ Published =>
       (Cloud.is_dense <=>
          \A k \in Pixels : /\ Call.depth_camera.near <= Call.scan[k]
                            /\ Call.scan[k] <= Call.depth_camera.far)
  /\ \A d \in DepthVals \cup InRangeVals :
       ~ClipPixel(d, DepthCam.near, DepthCam.far, FALSE).is_dense

\* C18 witness: in a published frame of four pixels the first one is
\* beyond the far plane, the three after it are in range, and the message
\* is not dense.
C18_Witness ==
  /\ Published /\ Len(Cloud.points) = 4 /\ ~Cloud.is_dense
  /\ Call.scan[1] > Call.depth_camera.far /\ Call.scan[1] < INF_D
  /\ \A k \in 2..4 : /\ Call.depth_camera.near <= Call.scan[k]
                     /\ Call.scan[k] <= Call.depth_camera.far

\* C19: whenever the callback sees a non-null RGB camera handle and
\* captures, the buffer rgb_image_ has been allocated by CreateImage.
C19_CaptureAfterCreateImage ==
  (Called /\ Call.rgb /\ Call.captured) => Call.allocated

\* The interleaving C19 excludes: the callback captured between line 222
\* and line 230 of the tick that resolved the RGB camera.
C19_CaptureBeforeCreateImage ==
  Called /\ Call.captured /\ ~Call.allocated /\ pc = "create"

\* C20: in a callback with the RGB camera resolved and its buffer allocated
\* the 3 * W * H bytes copied out of the buffer are no more than its size,
\* and every colour read index (j * W + i) * 3 + c of a published cloud is
\* below the length of the data of rgb_image_msg_.
C20_CopyWithinBuffer ==
  (Called /\ Call.captured /\ Call.allocated) =>
    /\ 3 * Call.width * Call.height <= Call.image_size
    /\ Published =>
         \A j \in 0..(Call.height - 1), i \in 0..(Call.width - 1),
            c \in 0..2 :
           (j * Call.width + i) * 3 + c < Len(rgb_image_msg_.data)

\* The half of C20 that holds: the colour reads of a published cloud stay
\* inside the data of the image message, which fillImage sized 3 * W * H.
C20_ReadsWithinMessage ==
  (Published /\ Call.captured) =>
    /\ Len(rgb_image_msg_.data) = 3 * Call.width * Call.height
    /\ \A j \in 0..(Call.height - 1), i \in 0..(Call.width - 1),
          c \in 0..2 :
         (j * Call.width + i) * 3 + c < Len(rgb_image_msg_.data)

====
